---- MODULE Spec2Model ----
(***************************************************************************)
(* A model of ggplot/layer.py: the Layers list (zorder bookkeeping and the *)
(* fan-out of the pipeline stages), the layer object (deep copy and the    *)
(* stages compute_aesthetics, setup_data, compute_statistic, map_statistic *)
(* and compute_position) and the grouping helper add_group.                *)
(*                                                                         *)
(* The module holds several specifications over one set of variables; each *)
(* specification drives one part of the file and parks the variables of    *)
(* the other parts at a constant.                                          *)
(***************************************************************************)
EXTENDS Integers, Sequences, FiniteSets, TLC

VARIABLES
    members,    \* Layers part: <<a, b>>, two Layers lists (sequences of layer ids)
    zorder,     \* Layers part: the zorder field of every layer object
    nlayers,    \* Layers part: number of layer objects constructed so far
    lastop,     \* Layers part: the last list operation and its arguments
    before,     \* Layers part: members and zorder as they were before lastop
    fan_n,      \* fan-out part: len(self) of the Layers list being driven
    fan_method, \* fan-out part: the fan-out method being executed
    fan_pc,     \* fan-out part: idle, loop (at the for), call (inside a layer's
                \*   operation), returned, raised
    fan_i,      \* fan-out part: position of the for loop in the list, 1-based
    fan_log,    \* fan-out part: what happened to the layers, in order
    fan_data,   \* fan-out part: l.data of each member, as the list of the
                \*   scale methods it has been through
    fan_exc,    \* fan-out part: the exception the caller of the method sees
    heap,       \* copy part: the contents of every object, by reference
    orig,       \* copy part: the __dict__ of the layer that is copied
    copy,       \* copy part: the __dict__ of deepcopy(orig), once made
    copy_pc,    \* copy part: "made" (no copy yet) or "copied"
    copy_op,    \* copy part: the last operation
    at_copy,    \* copy part: orig and heap as they were when the copy was made
    grp_in,     \* grouping part: the dataset add_group is called with
    grp_out,    \* grouping part: the dataset add_group returns
    grp_pc,     \* grouping part: "call" before add_group has run, "done" after
    lyr,        \* pipeline part: the layer: data, mapping, inherit_aes,
                \*   active_mapping (self._active_mapping), geom, stat
    plot,       \* pipeline part: the plot: mapping and scales (the aesthetics
                \*   registered with plot.scales by add_defaults)
    pipe_pc,    \* pipeline part: the stage the build runs next, or "done",
                \*   or "failed" once a stage has raised
    call        \* pipeline part: the last stage call: its name, what it
                \*   raised, and self.data and plot.scales before it

varsL == <<members, zorder, nlayers, lastop, before>>
varsF == <<fan_n, fan_method, fan_pc, fan_i, fan_log, fan_data, fan_exc>>
varsC == <<heap, orig, copy, copy_pc, copy_op, at_copy>>
varsG == <<grp_in, grp_out, grp_pc>>
varsP == <<lyr, plot, pipe_pc, call>>

\* what the operations of one part leave alone: the other parts
NotLayers == <<varsF, varsC, varsG, varsP>>
NotFan == <<varsL, varsC, varsG, varsP>>
NotCopy == <<varsL, varsF, varsG, varsP>>
NotGroup == <<varsL, varsF, varsC, varsP>>
NotPipe == <<varsL, varsF, varsC, varsG>>

vars == <<members, zorder, nlayers, lastop, before,
          fan_n, fan_method, fan_pc, fan_i, fan_log, fan_data, fan_exc,
          heap, orig, copy, copy_pc, copy_op, at_copy,
          grp_in, grp_out, grp_pc,
          lyr, plot, pipe_pc, call>>

(***************************************************************************)
(* Bounds                                                                  *)
(***************************************************************************)
MaxLayers == 4      \* layer objects constructed in one behaviour
MaxFan == 3         \* longest Layers list a fan-out method is run on
MaxCopyOps == 2     \* operations run on the copy after it is made
MaxRows == 2        \* rows of a dataset
MaxLen == 3         \* length of a literal vector given as an aesthetic

(***************************************************************************)
(* Helpers                                                                 *)
(***************************************************************************)
Range(s) == {s[i] : i \in 1..Len(s)}

\* the sequence lo, lo+1, ..., lo+k-1
Run(lo, k) == [i \in 1..k |-> lo + i - 1]

(***************************************************************************)
(* Datasets                                                                *)
(*                                                                         *)
(* A dataset (pandas DataFrame) is [n, cols]: n rows and a sequence of     *)
(* columns [name, kind, vals], kind the dtype.kind of the column and vals  *)
(* its n cells.  A cell is [h, v]: h tells whether hash() accepts the      *)
(* value (a str, a bool, a number) or raises TypeError (a list, a dict).   *)
(***************************************************************************)
Atom(v) == [h |-> TRUE, v |-> v]
Compound(v) == [h |-> FALSE, v |-> v]
\* the missing value pandas fills in when it aligns a column to new rows
NaN == [h |-> TRUE, v |-> -1]

\* type(data)(): no rows, no columns
EmptyFrame == [n |-> 0, cols |-> <<>>]
\* type(data)(index=data.index): the rows of data, no columns
FrameLike(data) == [n |-> data.n, cols |-> <<>>]

Names(df) == {df.cols[i].name : i \in 1..Len(df.cols)}
\* name in df
HasCol(df, name) == name \in Names(df)
\* df[name]: the first column of that name
GetCol(df, name) ==
    df.cols[CHOOSE i \in 1..Len(df.cols) :
                /\ df.cols[i].name = name
                /\ \A j \in 1..(i - 1) : df.cols[j].name # name]
\* df[col.name] = col: an existing column is replaced in place, a new one
\* is added at the end
SetCol(df, col) ==
    IF HasCol(df, col.name)
    THEN [df EXCEPT !.cols = [i \in 1..Len(df.cols) |->
                                 IF df.cols[i].name = col.name
                                 THEN col ELSE df.cols[i]]]
    ELSE [df EXCEPT !.cols = Append(df.cols, col)]
\* df[name] = scalar: the scalar in every row
ScalarCol(name, kind, cell, n) ==
    [name |-> name, kind |-> kind, vals |-> [i \in 1..n |-> cell]]
\* no two columns of df have the same name
DistinctNames(df) == Cardinality(Names(df)) = Len(df.cols)

(***************************************************************************)
(* add_group and discrete_columns                                          *)
(***************************************************************************)
\* utils.DISCRETE_KINDS: object (str, categorical), bool, unicode, bytes
DISCRETE_KINDS == {"O", "b", "U", "S"}
NO_GROUP == -1

\* the body of the for loop of discrete_columns for one column: whether the
\* column is appended to lst
IsDiscreteColumnNoIgnore(col, ignore) ==
    /\ col.kind \in DISCRETE_KINDS
    /\ col.vals[1].h

IsDiscreteColumn(col, ignore) ==
    /\ col.kind \in DISCRETE_KINDS
    /\ col.name \notin ignore
    \* hash(df[col].iloc[0]) raises TypeError: continue
    /\ col.vals[1].h

\* discrete_columns(df, ignore): the columns kept, in the order of df
discrete_columns(df, ignore) ==
    SelectSeq(df.cols, LAMBDA col : IsDiscreteColumn(col, ignore))

\* the order interaction coding ranks cell values by
CellCode(cell) == 2 * cell.v + (IF cell.h THEN 0 ELSE 1)

\* utils.ninteraction(df, drop=True) over the columns `cols` of an n-row
\* dataset: each row's composite key is ranked among the distinct keys,
\* lexicographically in column order; the ids are 1..K
ninteraction(cols, n) ==
    LET Key(r) == [c \in 1..Len(cols) |-> CellCode(cols[c].vals[r])]
        Keys == {Key(r) : r \in 1..n}
        KeyLess(k1, k2) ==
            \E c \in 1..Len(cols) :
                /\ \A d \in 1..(c - 1) : k1[d] = k2[d]
                /\ k1[c] < k2[c]
    IN [r \in 1..n |->
          1 + Cardinality({k \in Keys : KeyLess(k, Key(r))})]

\* a column of integer ids
IdCol(name, ids) ==
    [name |-> name, kind |-> "i",
     vals |-> [r \in 1..Len(ids) |-> Atom(ids[r])]]

\* add_group(data)
add_group(data) ==
    IF data.n = 0 THEN data
    ELSE IF ~HasCol(data, "group")
    THEN LET disc == discrete_columns(data, {"label"}) IN
         IF Len(disc) > 0
         THEN SetCol(data, IdCol("group", ninteraction(disc, data.n)))
         ELSE SetCol(data, ScalarCol("group", "i", Atom(NO_GROUP), data.n))
    ELSE SetCol(data, IdCol("group",
                            ninteraction(<<GetCol(data, "group")>>, data.n)))

\* the columns a resolved dataset may have, by row count: a continuous x,
\* a string colour (or a column of lists), a boolean fill, per-point
\* labels and an explicit group
Vectors(n, cells) == [1..n -> cells]
ColumnChoices(n) ==
    [x : {<<>>} \cup {<<[name |-> "x", kind |-> "f",
                         vals |-> [i \in 1..n |-> Atom(i % 2)]]>>},
     colour : {<<>>} \cup
              {<<[name |-> "colour", kind |-> "O", vals |-> v]>> :
                   v \in Vectors(n, {Atom(0), Atom(1)})
                        \cup Vectors(n, {Compound(0), Compound(1)})},
     fill : {<<>>} \cup
            {<<[name |-> "fill", kind |-> "b", vals |-> v]>> :
                   v \in Vectors(n, {Atom(0), Atom(1)})},
     label : {<<>>} \cup {<<[name |-> "label", kind |-> "O",
                             vals |-> [i \in 1..n |-> Atom(i)]]>>},
     group : {<<>>} \cup
             {<<[name |-> "group", kind |-> "O", vals |-> v]>> :
                   v \in Vectors(n, {Atom(3), Atom(7)})}]
ResolvedFrames ==
    UNION {{[n |-> n,
             cols |-> c.x \o c.colour \o c.fill \o c.label \o c.group] :
                c \in ColumnChoices(n)} : n \in 0..MaxRows}

InitGroup ==
    /\ grp_in \in ResolvedFrames
    /\ grp_out = EmptyFrame
    /\ grp_pc = "call"

ParkGroup ==
    /\ grp_in = EmptyFrame
    /\ grp_out = EmptyFrame
    /\ grp_pc = "call"

\* a call of add_group
AddGroup ==
    /\ grp_pc = "call"
    /\ grp_out' = add_group(grp_in)
    /\ grp_pc' = "done"
    /\ UNCHANGED grp_in
    /\ UNCHANGED NotGroup

NextGroup == AddGroup

(***************************************************************************)
(* class Layers(list)                                                      *)
(***************************************************************************)
Lists == {1, 2}
LayerIds == 1..MaxLayers

\* layer.__init__: a new layer object has zorder 0
layer_init_zorder == 0

NoOp == [op |-> "none", target |-> 0, other |-> <<>>, iter |-> FALSE,
         otherlist |-> 0, result |-> <<>>]

\* _set_zorder with enumerate(other, start=len(self)): numbering from len(self)
SetZorderFromLen(z, n, other) ==
    [l \in DOMAIN z |->
        IF \E i \in 1..Len(other) : other[i] = l
        THEN n - 1 + (CHOOSE i \in 1..Len(other) : other[i] = l)
        ELSE z[l]]

\* Layers._set_zorder(self, other): n is len(self) when it is called; every
\* item of other gets zorder n+1, n+2, ... in iteration order.
SetZorder(z, n, other) ==
    [l \in DOMAIN z |->
        IF \E i \in 1..Len(other) : other[i] = l
        THEN n + (CHOOSE i \in 1..Len(other) :
                     other[i] = l /\ \A j \in (i+1)..Len(other) : other[j] # l)
        ELSE z[l]]

\* what list.extend / list.__iadd__ receive from _set_zorder: `other` itself;
\* a one-shot iterator has been consumed by the enumerate() of _set_zorder.
AfterSetZorder(other, iter) == IF iter THEN <<>> ELSE other

InitLayers ==
    /\ members = <<(<<>>), (<<>>)>>
    /\ zorder = [l \in LayerIds |-> layer_init_zorder]
    /\ nlayers = 0
    /\ lastop = NoOp
    /\ before = [members |-> <<(<<>>), (<<>>)>>,
                 zorder |-> [l \in LayerIds |-> layer_init_zorder]]

Snapshot == [members |-> members, zorder |-> zorder]

\* Layers.append(self, item), item a newly constructed layer
Layers_append(k) ==
    /\ nlayers + 1 <= MaxLayers
    /\ LET item == nlayers + 1 IN
        /\ zorder' = [zorder EXCEPT ![item] = Len(members[k]) + 1]
        /\ members' = [members EXCEPT ![k] = Append(@, item)]
        /\ nlayers' = nlayers + 1
        /\ lastop' = [NoOp EXCEPT !.op = "append", !.target = k,
                                  !.other = <<item>>]
        /\ before' = Snapshot
    /\ UNCHANGED NotLayers
        /\ UNCHANGED NotLayers

\* Layers.extend(self, other), other a collection of c newly constructed
\* layers, handed over as a list or as a one-shot iterator
Layers_extend(k) ==
    \E c \in 0..MaxLayers, iter \in BOOLEAN :
        /\ nlayers + c <= MaxLayers
        /\ LET other == Run(nlayers + 1, c) IN
            /\ zorder' = SetZorder(zorder, Len(members[k]), other)
            /\ members' = [members EXCEPT
                             ![k] = @ \o AfterSetZorder(other, iter)]
            /\ nlayers' = nlayers + c
            /\ lastop' = [NoOp EXCEPT !.op = "extend", !.target = k,
                                      !.other = other, !.iter = iter]
            /\ before' = Snapshot
    /\ UNCHANGED NotLayers
            /\ UNCHANGED NotLayers
        /\ UNCHANGED NotLayers

\* Layers.__iadd__(self, other): the same two steps as extend
Layers_iadd(k) ==
    \E c \in 0..MaxLayers, iter \in BOOLEAN :
        /\ nlayers + c <= MaxLayers
        /\ LET other == Run(nlayers + 1, c) IN
            /\ zorder' = SetZorder(zorder, Len(members[k]), other)
            /\ members' = [members EXCEPT
                             ![k] = @ \o AfterSetZorder(other, iter)]
            /\ nlayers' = nlayers + c
            /\ lastop' = [NoOp EXCEPT !.op = "iadd", !.target = k,
                                      !.other = other, !.iter = iter]
            /\ before' = Snapshot
    /\ UNCHANGED NotLayers
            /\ UNCHANGED NotLayers
        /\ UNCHANGED NotLayers

\* Layers.__add__(self, other) with other a plain list of c newly
\* constructed layers: returns a new list, self is not rebound
Layers_add(k) ==
    \E c \in 0..MaxLayers :
        /\ nlayers + c <= MaxLayers
        /\ LET other == Run(nlayers + 1, c) IN
            /\ zorder' = SetZorder(zorder, Len(members[k]), other)
            /\ nlayers' = nlayers + c
            /\ lastop' = [NoOp EXCEPT !.op = "add", !.target = k,
                                      !.other = other,
                                      !.result = members[k] \o other]
            /\ before' = Snapshot
    /\ UNCHANGED NotLayers
            /\ UNCHANGED NotLayers
        /\ UNCHANGED NotLayers
            /\ UNCHANGED members

\* Layers.__add__(self, other) with other the second Layers list
Layers_add_lists(k) ==
    LET o == 3 - k
        other == members[o] IN
    /\ zorder' = SetZorder(zorder, Len(members[k]), other)
    /\ lastop' = [NoOp EXCEPT !.op = "add", !.target = k, !.other = other,
                              !.otherlist = o,
                              !.result = members[k] \o other]
    /\ before' = Snapshot
    /\ UNCHANGED NotLayers
    /\ UNCHANGED <<members, nlayers>>

(***************************************************************************)
(* Layers: the fan-out methods                                             *)
(***************************************************************************)
ScaleMethods == {"transform", "train", "map"}
LayerMethods == {"setup_data", "draw", "compute_aesthetics",
                 "compute_statistic", "map_statistic", "compute_position",
                 "use_defaults"}
\* what a layer's operation (or the scale system) may raise
Exceptions == {"GgplotError", "KeyError"}
NoExc == "none"

InitFan ==
    /\ fan_n \in 0..MaxFan
    /\ fan_method = "none"
    /\ fan_pc = "idle"
    /\ fan_i = 0
    /\ fan_log = <<>>
    /\ fan_data = [i \in 1..fan_n |-> <<>>]
    /\ fan_exc = NoExc

ParkFan ==
    /\ fan_n = 0
    /\ fan_method = "none"
    /\ fan_pc = "idle"
    /\ fan_i = 0
    /\ fan_log = <<>>
    /\ fan_data = <<>>
    /\ fan_exc = NoExc

\* entry of a fan-out method: `for l in self:` starts at the first member
FanEnter(m) ==
    /\ fan_pc = "idle"
    /\ fan_method' = m
    /\ fan_pc' = "loop"
    /\ fan_i' = 1
    /\ UNCHANGED <<fan_n, fan_log, fan_data, fan_exc>>
    /\ UNCHANGED NotFan

Layers_setup_data == FanEnter("setup_data")
Layers_draw == FanEnter("draw")
Layers_compute_aesthetics == FanEnter("compute_aesthetics")
Layers_compute_statistic == FanEnter("compute_statistic")
Layers_map_statistic == FanEnter("map_statistic")
Layers_compute_position == FanEnter("compute_position")
Layers_use_defaults == FanEnter("use_defaults")
Layers_transform == FanEnter("transform")
Layers_train == FanEnter("train")
Layers_map == FanEnter("map")

\* `for l in self:` takes the next member and calls its operation, or the
\* list is exhausted and the method returns
FanFor ==
    /\ fan_pc = "loop"
    /\ IF fan_i <= fan_n
       THEN /\ fan_pc' = "call"
            /\ fan_log' = Append(fan_log, [ev |-> "begin", layer |-> fan_i,
                                           exc |-> NoExc])
       ELSE /\ fan_pc' = "returned"
            /\ UNCHANGED fan_log
    /\ UNCHANGED <<fan_n, fan_method, fan_i, fan_data, fan_exc>>
    /\ UNCHANGED NotFan

\* the body of the loop: l.<method>(...) returns, or for transform, train
\* and map scales.<method>_df(l.data) returns and is assigned to l.data
FanBodyReturns ==
    /\ fan_pc = "call"
    /\ fan_log' = Append(fan_log, [ev |-> "end", layer |-> fan_i,
                                   exc |-> NoExc])
    /\ fan_data' = IF fan_method \in ScaleMethods
                   THEN [fan_data EXCEPT ![fan_i] = Append(@, fan_method)]
                   ELSE fan_data
    /\ fan_i' = fan_i + 1
    /\ fan_pc' = "loop"
    /\ UNCHANGED <<fan_n, fan_method, fan_exc>>
    /\ UNCHANGED NotFan

\* an exception caught in the loop body and the loop carried on
FanBodyRaisesSwallowed ==
    /\ fan_pc = "call"
    /\ \E e \in Exceptions :
          fan_log' = Append(fan_log, [ev |-> "raise", layer |-> fan_i,
                                     exc |-> e])
    /\ fan_i' = fan_i + 1
    /\ fan_pc' = "loop"
    /\ UNCHANGED <<fan_n, fan_method, fan_data, fan_exc>>
    /\ UNCHANGED NotFan

\* the body of the loop raises: no handler in the method, the exception
\* leaves the loop and the method as it is
FanBodyRaises ==
    /\ fan_pc = "call"
    /\ \E e \in Exceptions :
          /\ fan_log' = Append(fan_log, [ev |-> "raise", layer |-> fan_i,
                                         exc |-> e])
          /\ fan_exc' = e
    /\ fan_pc' = "raised"
    /\ UNCHANGED <<fan_n, fan_method, fan_i, fan_data>>
    /\ UNCHANGED NotFan

NextFan ==
    \/ Layers_setup_data \/ Layers_draw \/ Layers_compute_aesthetics
    \/ Layers_compute_statistic \/ Layers_map_statistic
    \/ Layers_compute_position \/ Layers_use_defaults
    \/ Layers_transform \/ Layers_train \/ Layers_map
    \/ FanFor \/ FanBodyReturns \/ FanBodyRaises

(***************************************************************************)
(* layer.__deepcopy__                                                      *)
(*                                                                         *)
(* Objects live in `heap`, a sequence: reference r holds contents heap[r]. *)
(* A layer's __dict__ maps each field name to a reference (geom, stat,     *)
(* data, mapping, position, _active_mapping) or to an immutable value      *)
(* (inherit_aes, show_legend, zorder).                                     *)
(***************************************************************************)
ObjFields == <<"geom", "stat", "mapping", "position", "_active_mapping">>
ValFields == {"inherit_aes", "show_legend", "zorder"}
\* the contents a mapping or a dataset may have (abstract values)
Contents == {0, 1}
Fields == Range(ObjFields) \cup ValFields \cup {"data"}
\* the stages that assign self.data (l.data for the three scale methods)
Stages == {"compute_aesthetics", "setup_data", "compute_statistic",
           "map_statistic", "compute_position", "transform", "train", "map"}

\* position of an object field in the order the objects were made
FieldIndex(key) == CHOOSE i \in 1..Len(ObjFields) : ObjFields[i] = key

\* layer.__init__ with its arguments already constructed: the objects are
\* distinct, the dataset is the last of them
InitCopy ==
    /\ \E m \in Contents, d \in Contents :
          heap = [i \in 1..(Len(ObjFields) + 1) |->
                    IF i = Len(ObjFields) + 1 THEN d
                    ELSE IF ObjFields[i] = "mapping" THEN m
                    ELSE IF ObjFields[i] = "_active_mapping" THEN 0
                    ELSE i]
    /\ \E ia \in BOOLEAN, sl \in {"None", "True", "False"}, z \in {0} :
          orig = [key \in Fields |->
                    IF key \in Range(ObjFields) THEN FieldIndex(key)
                    ELSE IF key = "data" THEN Len(ObjFields) + 1
                    ELSE IF key = "inherit_aes" THEN ia
                    ELSE IF key = "show_legend" THEN sl
                    ELSE z]
    /\ copy = orig
    /\ copy_pc = "made"
    /\ copy_op = [op |-> "init", n |-> 0]
    /\ at_copy = [orig |-> orig, heap |-> heap]

ParkCopy ==
    /\ heap = <<>>
    /\ orig = <<>>
    /\ copy = <<>>
    /\ copy_pc = "made"
    /\ copy_op = [op |-> "init", n |-> 0]
    /\ at_copy = <<>>

\* a copy that binds every field of the new layer to the old layer's value
ShallowFieldCopy(key, old, fresh) == old

\* the loop body of __deepcopy__: what new[key] is bound to, where `fresh`
\* is the reference of the object deepcopy(old[key], memo) makes
DeepFieldCopy(key, old, fresh) ==
    IF key = "data" THEN old
    ELSE IF key \in Range(ObjFields) THEN fresh
    ELSE old

\* layer.__deepcopy__(self, memo)
Layer_deepcopy ==
    /\ copy_pc = "made"
    /\ LET base == Len(heap) IN
        /\ heap' = heap \o [i \in 1..Len(ObjFields) |-> heap[orig[ObjFields[i]]]]
        /\ copy' = [key \in Fields |->
                      DeepFieldCopy(key, orig[key],
                                    IF key \in Range(ObjFields)
                                    THEN base + FieldIndex(key) ELSE 0)]
        /\ at_copy' = [orig |-> orig, heap |-> heap]
    /\ copy_pc' = "copied"
    /\ copy_op' = [op |-> "deepcopy", n |-> 0]
    /\ UNCHANGED orig
    /\ UNCHANGED NotCopy

\* a stage run on the copy: data = self.data is read, the result is a new
\* dataset (evaled, the hooks' return value, pd.concat) and self.data is
\* bound to it
StageOnCopy ==
    /\ copy_pc = "copied"
    /\ copy_op.n < MaxCopyOps
    /\ \E stage \in Stages, c \in Contents :
          /\ heap' = Append(heap, c)
          /\ copy' = [copy EXCEPT !["data"] = Len(heap) + 1]
          /\ copy_op' = [op |-> stage, n |-> copy_op.n + 1]
    /\ UNCHANGED <<orig, copy_pc, at_copy>>
    /\ UNCHANGED NotCopy

\* a change to one of the copy's objects (a key set in its mapping, a
\* parameter of its geom), as compute_aesthetics does to _active_mapping
MutateCopyObject ==
    /\ copy_pc = "copied"
    /\ copy_op.n < MaxCopyOps
    /\ \E i \in 1..Len(ObjFields) :
          /\ heap' = [heap EXCEPT ![copy[ObjFields[i]]] = @ + 1]
          /\ copy_op' = [op |-> ObjFields[i], n |-> copy_op.n + 1]
    /\ UNCHANGED <<orig, copy, copy_pc, at_copy>>
    /\ UNCHANGED NotCopy

\* a field of the copy is rebound: Layers.append sets zorder, layer_mapping
\* sets _active_mapping to a new aes
RebindCopyField ==
    /\ copy_pc = "copied"
    /\ copy_op.n < MaxCopyOps
    /\ \/ /\ copy' = [copy EXCEPT !["zorder"] = @ + 1]
          /\ copy_op' = [op |-> "zorder", n |-> copy_op.n + 1]
          /\ UNCHANGED heap
       \/ /\ heap' = Append(heap, 0)
          /\ copy' = [copy EXCEPT !["_active_mapping"] = Len(heap) + 1]
          /\ copy_op' = [op |-> "layer_mapping", n |-> copy_op.n + 1]
    /\ UNCHANGED <<orig, copy_pc, at_copy>>
    /\ UNCHANGED NotCopy

NextCopy ==
    Layer_deepcopy \/ StageOnCopy \/ MutateCopyObject \/ RebindCopyField

(***************************************************************************)
(* Aesthetic mappings                                                      *)
(*                                                                         *)
(* A mapping (aes, a dict) is a function from aesthetic names to values.   *)
(* A value is a string, a list, a number or something else (None, a dict). *)
(* A string is held as its text s without the calculated-aesthetic marker, *)
(* the flag dots telling whether it is written "..s..", and ev, what       *)
(* env.eval makes of it when it is not a column of the data: "fail" (it    *)
(* raises, as for an undefined name), "series" (one value per row) or      *)
(* "bad" (a value pandas cannot store as a column).  A list of length n    *)
(* holds v, v+1, ..., v+n-1.                                               *)
(***************************************************************************)
Str(s, ev) == [t |-> "str", s |-> s, dots |-> FALSE, ev |-> ev, n |-> 0, v |-> 0]
Calc(s) == [t |-> "str", s |-> s, dots |-> TRUE, ev |-> "fail", n |-> 0, v |-> 0]
List(n, v) == [t |-> "list", s |-> "", dots |-> FALSE, ev |-> "", n |-> n, v |-> v]
Num(v) == [t |-> "num", s |-> "", dots |-> FALSE, ev |-> "", n |-> 0, v |-> v]
Other == [t |-> "other", s |-> "", dots |-> FALSE, ev |-> "", n |-> 0, v |-> 0]
\* no entry for the aesthetic (used only to enumerate mappings)
Absent == [t |-> "absent", s |-> "", dots |-> FALSE, ev |-> "", n |-> 0, v |-> 0]

\* the mappings that give each aesthetic of `choices` one of the values
\* listed for it, or leave it out
Mappings(choices) ==
    {[ae \in {k \in DOMAIN choices : f[k] # Absent} |-> f[ae]] :
        f \in {g \in [DOMAIN choices -> UNION {choices[k] : k \in DOMAIN choices}
                                          \cup {Absent}] :
                  \A k \in DOMAIN choices : g[k] \in choices[k] \cup {Absent}}}

EmptyMapping == [ae \in {} |-> Absent]

\* utils.defaults(d1, d2): d1 with the entries of d2 it does not have
defaults(d1, d2) ==
    [ae \in DOMAIN d1 \cup DOMAIN d2 |->
        IF ae \in DOMAIN d1 THEN d1[ae] ELSE d2[ae]]

\* aes.is_calculated_aes(aesthetics): the aesthetics mapped to "..name.."
is_calculated_aes(aesthetics) ==
    {ae \in DOMAIN aesthetics :
        aesthetics[ae].t = "str" /\ aesthetics[ae].dots}

\* aes.strip_dots(value): "..name.." without the dots
strip_dots(value) == value.s

\* the orders a dict with these keys may be iterated in
Orders(keys) ==
    {o \in [1..Cardinality(keys) -> keys] :
        \A i, j \in 1..Cardinality(keys) : i # j => o[i] # o[j]}

(***************************************************************************)
(* layer.layer_mapping and layer.compute_aesthetics                        *)
(***************************************************************************)
NoErr == "none"
\* the four GgplotErrors of compute_aesthetics
AesErrors == {"EvalFail", "BadEvalType", "LengthMismatch", "Unsupported"}

\* layer_mapping with the plot's mapping merged in whatever inherit_aes says
layer_mapping_always_inherit(l, mapping) ==
    LET aesthetics == defaults(l.mapping, mapping)
        calculated == is_calculated_aes(aesthetics)
    IN [ae \in {k \in DOMAIN aesthetics :
                   k \notin DOMAIN l.geom.aes_params /\ k \notin calculated}
          |-> aesthetics[ae]]

\* layer.layer_mapping(self, mapping): the new self._active_mapping
layer_mapping(l, mapping) ==
    LET aesthetics == IF l.inherit_aes THEN defaults(l.mapping, mapping)
                      ELSE l.mapping
        calculated == is_calculated_aes(aesthetics)
    IN [ae \in {k \in DOMAIN aesthetics :
                   k \notin DOMAIN l.geom.aes_params /\ k \notin calculated}
          |-> aesthetics[ae]]

\* with suppress(KeyError): aesthetics['group'] = self.geom.aes_params['group']
GroupOverride(aesthetics, aes_params) ==
    IF "group" \in DOMAIN aes_params
    THEN [ae \in DOMAIN aesthetics \cup {"group"} |->
            IF ae = "group" THEN aes_params["group"] ELSE aesthetics[ae]]
    ELSE aesthetics

\* evaled[name] = <a Series of data>: aligned on the index, rows the Series
\* does not have are NaN
AssignSeries(evaled, name, kind, vals) ==
    SetCol(evaled, [name |-> name, kind |-> kind,
                    vals |-> [i \in 1..evaled.n |->
                                IF i <= Len(vals) THEN vals[i] ELSE NaN]])

\* evaled[name] = <a list>: a frame with an empty index takes the index of
\* the list (its other columns become NaN); otherwise the lengths must agree
AssignList(evaled, name, kind, vals) ==
    IF evaled.n = 0
    THEN [ok |-> TRUE,
          df |-> SetCol([n |-> Len(vals),
                         cols |-> [i \in 1..Len(evaled.cols) |->
                                     [evaled.cols[i] EXCEPT
                                        !.vals = [r \in 1..Len(vals) |-> NaN]]]],
                        [name |-> name, kind |-> kind, vals |-> vals])]
    ELSE IF Len(vals) = evaled.n
    THEN [ok |-> TRUE,
          df |-> SetCol(evaled, [name |-> name, kind |-> kind, vals |-> vals])]
    ELSE [ok |-> FALSE, df |-> evaled]

\* the length check with `or` for the first `and`: an empty dataset takes
\* no vector
LengthRejectedOnEmpty(rows, n) == rows = 0 \/ (n # rows /\ n # 1)

\* if len(data) and n != len(data) and n != 1: raise
LengthRejected(rows, n) == rows # 0 /\ n # rows /\ n # 1

\* the body of `for ae, col in aesthetics.items()`; st is [evaled,
\* has_aes_params, err]
EvalOne(data, ae, col, st) ==
    IF col.t = "str"
    THEN IF ~col.dots /\ HasCol(data, col.s)
         THEN [st EXCEPT !.evaled =
                 AssignSeries(st.evaled, ae, GetCol(data, col.s).kind,
                              GetCol(data, col.s).vals)]
         ELSE IF col.ev = "fail" THEN [st EXCEPT !.err = "EvalFail"]
         ELSE IF col.ev = "bad" THEN [st EXCEPT !.err = "BadEvalType"]
         ELSE [st EXCEPT !.evaled =
                 AssignSeries(st.evaled, ae, "O",
                              [i \in 1..data.n |-> Atom(i % 2)])]
    ELSE IF col.t = "list"
    THEN IF LengthRejected(data.n, col.n)
         THEN [st EXCEPT !.err = "LengthMismatch"]
         ELSE IF col.n = 1
         THEN [st EXCEPT !.has_aes_params = TRUE,
                         !.evaled = SetCol(st.evaled,
                                           ScalarCol(ae, "i", Atom(col.v),
                                                     st.evaled.n))]
         ELSE LET a == AssignList(st.evaled, ae, "i",
                                  [i \in 1..col.n |-> Atom(col.v + i - 1)])
              IN IF a.ok
                 THEN [st EXCEPT !.has_aes_params = TRUE, !.evaled = a.df]
                 ELSE [st EXCEPT !.has_aes_params = TRUE,
                                 !.err = "ValueError"]
    ELSE IF col.t = "num"
    THEN [st EXCEPT !.evaled = SetCol(st.evaled,
                                      ScalarCol(ae, "i", Atom(col.v),
                                                st.evaled.n))]
    ELSE [st EXCEPT !.err = "Unsupported"]

\* the for loop over aesthetics.items(), in dict order `order`; an
\* exception ends it
RECURSIVE EvalLoop(_, _, _, _, _)
EvalLoop(data, aesthetics, order, i, st) ==
    IF i > Len(order) \/ st.err # NoErr THEN st
    ELSE EvalLoop(data, aesthetics, order, i + 1,
                  EvalOne(data, order[i], aesthetics[order[i]], st))

\* int columns are cast to float
WidenInts(df) ==
    [df EXCEPT !.cols = [i \in 1..Len(df.cols) |->
                           IF df.cols[i].kind = "i"
                           THEN [df.cols[i] EXCEPT !.kind = "f"]
                           ELSE df.cols[i]]]

\* add_defaults called for whatever the loop resolved before it stopped
ScalesAfterLoopAlways(scales, st) == scales \cup Names(st.evaled)

\* plot.scales.add_defaults(evaled, evaled_aes), reached when the loop has
\* not raised: every resolved aesthetic is registered
ScalesAfterLoop(scales, st) ==
    IF st.err = NoErr THEN scales \cup Names(st.evaled) ELSE scales

\* layer.compute_aesthetics(self, plot): what the call leaves behind, as
\* [err, data, scales, active_mapping]
compute_aesthetics(l, plt, order) ==
    LET data == l.data
        aesthetics == GroupOverride(layer_mapping(l, plt.mapping),
                                    l.geom.aes_params)
        st == EvalLoop(data, aesthetics, order, 1,
                       [evaled |-> FrameLike(data), has_aes_params |-> FALSE,
                        err |-> NoErr])
        evaled == WidenInts(st.evaled)
        scales == ScalesAfterLoop(plt.scales, st)
        failed(e) == [err |-> e, data |-> data, scales |-> scales,
                      active_mapping |-> aesthetics]
    IN IF st.err # NoErr THEN failed(st.err)
       ELSE IF data.n = 0 /\ st.has_aes_params
       THEN [err |-> NoErr,
             data |-> add_group(SetCol(evaled,
                                       ScalarCol("PANEL", "i", Atom(1),
                                                 evaled.n))),
             scales |-> scales, active_mapping |-> aesthetics]
       ELSE IF ~HasCol(data, "PANEL") THEN failed("KeyError")
       ELSE [err |-> NoErr,
             data |-> add_group(AssignSeries(evaled, "PANEL",
                                             GetCol(data, "PANEL").kind,
                                             GetCol(data, "PANEL").vals)),
             scales |-> scales, active_mapping |-> aesthetics]

\* the keys compute_aesthetics iterates over
ActiveKeys(l, plt) ==
    DOMAIN GroupOverride(layer_mapping(l, plt.mapping), l.geom.aes_params)

\* a call of layer.compute_aesthetics
ComputeAesthetics ==
    /\ pipe_pc = "compute_aesthetics"
    /\ \E order \in Orders(ActiveKeys(lyr, plot)) :
         LET r == compute_aesthetics(lyr, plot, order) IN
            /\ lyr' = [lyr EXCEPT !.data = r.data,
                                  !.active_mapping = r.active_mapping]
            /\ plot' = [plot EXCEPT !.scales = r.scales]
            /\ pipe_pc' = IF r.err = NoErr THEN "setup_data" ELSE "failed"
            /\ call' = [stage |-> "compute_aesthetics", err |-> r.err,
                        data |-> lyr.data, scales |-> plot.scales]
    /\ UNCHANGED NotPipe

(***************************************************************************)
(* layer.setup_data, compute_statistic, map_statistic, compute_position    *)
(***************************************************************************)
\* geom.setup_data(data): the geom's data-preparation hook returns the
\* dataset as it is or with a column of its own added (a bar's width)
GeomSetupData(data) ==
    {data} \cup
    (IF HasCol(data, "width") THEN {}
     ELSE {SetCol(data, ScalarCol("width", "f", Atom(1), data.n))})

\* utils.check_required_aesthetics(required, present, name): raises when a
\* required aesthetic is not present
check_required_aesthetics(required, present) == required \subseteq present

\* setup_data with self.data assigned before the required aesthetics are
\* checked
setup_data_assign_first(l, prepared) ==
    IF l.data.n = 0 THEN [err |-> NoErr, data |-> l.data]
    ELSE IF ~check_required_aesthetics(
                l.geom.REQUIRED_AES,
                Names(prepared) \cup DOMAIN l.geom.aes_params)
    THEN [err |-> "MissingAes", data |-> prepared]
    ELSE [err |-> NoErr, data |-> prepared]

\* layer.setup_data(self), `prepared` being what geom.setup_data returns:
\* [err, data], data the new self.data
setup_data(l, prepared) ==
    IF l.data.n = 0 THEN [err |-> NoErr, data |-> l.data]
    ELSE IF ~check_required_aesthetics(
                l.geom.REQUIRED_AES,
                Names(prepared) \cup DOMAIN l.geom.aes_params)
    THEN [err |-> "MissingAes", data |-> l.data]
    ELSE [err |-> NoErr, data |-> prepared]

\* a call of layer.setup_data
SetupData ==
    /\ pipe_pc = "setup_data"
    /\ \E prepared \in GeomSetupData(lyr.data) :
         LET r == setup_data(lyr, prepared) IN
            /\ lyr' = [lyr EXCEPT !.data = r.data]
            /\ pipe_pc' = IF r.err = NoErr THEN "compute_statistic"
                          ELSE "failed"
            /\ call' = [stage |-> "setup_data", err |-> r.err,
                        data |-> lyr.data, scales |-> plot.scales]
    /\ UNCHANGED plot
    /\ UNCHANGED NotPipe

\* stat.compute_layer(data, params, panel): the statistic returns a dataset
\* of its own: PANEL and group, and any of x, y and count
StatFrames ==
    {[n |-> n,
      cols |-> <<ScalarCol("PANEL", "i", Atom(1), n),
                 ScalarCol("group", "i", Atom(1), n)>>
               \o (IF "x" \in c
                   THEN <<[name |-> "x", kind |-> "f",
                           vals |-> [i \in 1..n |-> Atom(i)]]>> ELSE <<>>)
               \o (IF "y" \in c
                   THEN <<[name |-> "y", kind |-> "f",
                           vals |-> [i \in 1..n |-> Atom(i + 2)]]>> ELSE <<>>)
               \o (IF "count" \in c
                   THEN <<[name |-> "count", kind |-> "f",
                           vals |-> [i \in 1..n |-> Atom(i + 4)]]>> ELSE <<>>)] :
        n \in 0..MaxRows, c \in SUBSET {"x", "y", "count"}}

\* a call of layer.compute_statistic
ComputeStatistic ==
    /\ pipe_pc = "compute_statistic"
    /\ IF lyr.data.n = 0
       THEN UNCHANGED lyr
       ELSE \E computed \in StatFrames : lyr' = [lyr EXCEPT !.data = computed]
    /\ pipe_pc' = "map_statistic"
    /\ call' = [stage |-> "compute_statistic", err |-> NoErr,
                data |-> lyr.data, scales |-> plot.scales]
    /\ UNCHANGED plot
    /\ UNCHANGED NotPipe

\* plot.scales.transform_df(stat_data): the scales' transformations applied
\* to the values, the columns kept (tr: whether a scale transforms)
TransformDf(df, tr) ==
    IF ~tr THEN df
    ELSE [df EXCEPT !.cols = [i \in 1..Len(df.cols) |->
            [df.cols[i] EXCEPT !.vals = [r \in 1..df.n |->
                                           Atom(df.cols[i].vals[r].v + 10)]]]]

\* pd.concat([data, stat_data], axis=1): the columns of both, side by side
ConcatColumns(data, stat_data) ==
    [n |-> data.n, cols |-> data.cols \o stat_data.cols]

\* the body of `for ae in is_calculated_aes(aesthetics)`; st is
\* [stat_data, err]
StatOne(data, ae, computed, st) ==
    IF ae = computed THEN st
    ELSE IF ~HasCol(data, computed) THEN [st EXCEPT !.err = "KeyError"]
    ELSE [st EXCEPT !.stat_data =
            SetCol([n |-> data.n, cols |-> st.stat_data.cols],
                   [GetCol(data, computed) EXCEPT !.name = ae])]

RECURSIVE StatLoop(_, _, _, _, _)
StatLoop(data, new, order, i, st) ==
    IF i > Len(order) \/ st.err # NoErr THEN st
    ELSE StatLoop(data, new, order, i + 1,
                  StatOne(data, order[i], new[order[i]], st))

\* the aesthetics map_statistic assembles from layer, plot and stat
StatAesthetics(l, plt) ==
    defaults(IF l.inherit_aes THEN defaults(l.mapping, plt.mapping)
             ELSE l.mapping,
             l.stat.DEFAULT_AES)

\* layer.map_statistic(self, plot): [err, data, scales]
map_statistic(l, plt, order, tr) ==
    LET data == l.data
        aesthetics == StatAesthetics(l, plt)
        new == [ae \in is_calculated_aes(aesthetics) |->
                  strip_dots(aesthetics[ae])]
        st == StatLoop(data, new, order, 1,
                       [stat_data |-> EmptyFrame, err |-> NoErr])
        stat_data == IF l.stat.retransform
                     THEN TransformDf(st.stat_data, tr) ELSE st.stat_data
    IN IF data.n = 0
       THEN [err |-> NoErr, data |-> data, scales |-> plt.scales]
       ELSE IF st.err # NoErr
       THEN [err |-> st.err, data |-> data, scales |-> plt.scales]
       ELSE IF DOMAIN new = {}
       THEN [err |-> NoErr, data |-> data, scales |-> plt.scales]
       ELSE [err |-> NoErr, data |-> ConcatColumns(data, stat_data),
             scales |-> plt.scales \cup DOMAIN new]

\* a call of layer.map_statistic
MapStatistic ==
    /\ pipe_pc = "map_statistic"
    /\ \E order \in Orders(is_calculated_aes(StatAesthetics(lyr, plot))),
          tr \in BOOLEAN :
         LET r == map_statistic(lyr, plot, order, tr) IN
            /\ lyr' = [lyr EXCEPT !.data = r.data]
            /\ plot' = [plot EXCEPT !.scales = r.scales]
            /\ pipe_pc' = IF r.err = NoErr THEN "compute_position"
                          ELSE "failed"
            /\ call' = [stage |-> "map_statistic", err |-> r.err,
                        data |-> lyr.data, scales |-> plot.scales]
    /\ UNCHANGED NotPipe

\* position.compute_layer(data, params, panel) after setup_params and
\* setup_data: the rows and columns of data, x adjusted or not
PositionComputeLayer(data) ==
    {data} \cup
    (IF data.n > 0 /\ HasCol(data, "x")
     THEN {SetCol(data, [GetCol(data, "x") EXCEPT
                           !.vals = [r \in 1..data.n |->
                                       Atom(GetCol(data, "x").vals[r].v + 1)]])}
     ELSE {})

\* a call of layer.compute_position
ComputePosition ==
    /\ pipe_pc = "compute_position"
    /\ \E adjusted \in PositionComputeLayer(lyr.data) :
          lyr' = [lyr EXCEPT !.data = adjusted]
    /\ pipe_pc' = "done"
    /\ call' = [stage |-> "compute_position", err |-> NoErr,
                data |-> lyr.data, scales |-> plot.scales]
    /\ UNCHANGED plot
    /\ UNCHANGED NotPipe

(***************************************************************************)
(* The layers and plots the pipeline is run on                             *)
(***************************************************************************)
\* the dataset of a layer before compute_aesthetics: a string column a or
\* not, the PANEL column of the facet or not
SourceFrames ==
    {[n |-> n,
      cols |-> (IF a THEN <<[name |-> "a", kind |-> "O",
                             vals |-> [i \in 1..n |-> Atom(i % 2)]]>>
                ELSE <<>>)
               \o (IF p THEN <<ScalarCol("PANEL", "i", Atom(1), n)>>
                   ELSE <<>>)] :
        n \in 0..MaxRows, a \in BOOLEAN, p \in BOOLEAN}

NoCall == [stage |-> "none", err |-> NoErr, data |-> EmptyFrame, scales |-> {}]

\* layers whose mapping holds at most one literal vector (x), with the
\* fixed aesthetics and the required aesthetics of their geom
AesLayers(frames) ==
    {[data |-> data, mapping |-> mapping,
      inherit_aes |-> inherit_aes, active_mapping |-> EmptyMapping,
      geom |-> [aes_params |-> aes_params, REQUIRED_AES |-> required],
      stat |-> [DEFAULT_AES |-> EmptyMapping, retransform |-> TRUE]] :
        data \in frames,
        mapping \in Mappings(
            [x |-> {Str("a", "fail"), Str("ones((2, 2))", "bad"), Num(7),
                    Other} \cup {List(n, 5) : n \in 0..MaxLen},
             y |-> {Str("factor(a)", "series"), Calc("count")},
             group |-> {Str("a", "fail")}]),
        inherit_aes \in BOOLEAN,
        aes_params \in {EmptyMapping, [group |-> Num(1)],
                        [group |-> Num(1), colour |-> Num(2)]},
        required \in {{}, {"x", "y"}}}

AesPlots ==
    {[mapping |-> mapping, scales |-> {}] :
        mapping \in {EmptyMapping, [x |-> Str("a", "fail")],
                     [x |-> Str("a", "fail"),
                      colour |-> Str("factor(a)", "series")]}}

InitAes ==
    /\ lyr \in AesLayers(SourceFrames)
    /\ plot \in AesPlots
    /\ pipe_pc = "compute_aesthetics"
    /\ call = NoCall

\* layers whose dataset has no rows
InitEmpty ==
    /\ lyr \in AesLayers({f \in SourceFrames : f.n = 0})
    /\ plot \in AesPlots
    /\ pipe_pc = "compute_aesthetics"
    /\ call = NoCall

\* layers about to compute their statistic: a resolved dataset, calculated
\* aesthetics in the layer mapping, the plot mapping and DEFAULT_AES
InitStat ==
    /\ \E n \in 0..MaxRows,
          mapping \in Mappings([x |-> {Str("a", "fail"), Calc("count")},
                                y |-> {Calc("count"), Calc("y"),
                                       Str("a", "fail")}]),
          inherit_aes \in BOOLEAN,
          default_aes \in {EmptyMapping, [y |-> Calc("count")],
                           [weight |-> Num(1)]},
          retransform \in BOOLEAN :
          lyr = [data |-> [n |-> n,
                           cols |-> <<[name |-> "x", kind |-> "f",
                                       vals |-> [i \in 1..n |-> Atom(i)]],
                                      ScalarCol("PANEL", "i", Atom(1), n),
                                      ScalarCol("group", "i", Atom(NO_GROUP), n)>>],
                 mapping |-> mapping, inherit_aes |-> inherit_aes,
                 active_mapping |-> EmptyMapping,
                 geom |-> [aes_params |-> EmptyMapping, REQUIRED_AES |-> {}],
                 stat |-> [DEFAULT_AES |-> default_aes,
                           retransform |-> retransform]]
    /\ \E mapping \in Mappings([x |-> {Str("a", "fail")},
                                 y |-> {Calc("count")}]) :
          plot = [mapping |-> mapping, scales |-> {"x"}]
    /\ pipe_pc = "compute_statistic"
    /\ call = NoCall

ParkPipe ==
    /\ lyr = <<>>
    /\ plot = <<>>
    /\ pipe_pc = "parked"
    /\ call = NoCall

NextAes == ComputeAesthetics \/ SetupData

NextStat == ComputeStatistic \/ MapStatistic

NextPipeline ==
    \/ ComputeAesthetics \/ SetupData \/ ComputeStatistic
    \/ MapStatistic \/ ComputePosition

NextInsert ==
    \E k \in Lists : Layers_append(k) \/ Layers_extend(k) \/ Layers_iadd(k)

NextAdd ==
    \E k \in Lists :
        \/ Layers_append(k) \/ Layers_extend(k) \/ Layers_iadd(k)
        \/ Layers_add(k) \/ Layers_add_lists(k)

\* append, extend and += only
InitInsert == InitLayers /\ ParkFan /\ ParkCopy /\ ParkGroup /\ ParkPipe
SpecInsert == InitInsert /\ [][NextInsert]_vars

\* append, extend, += and +
SpecAdd == InitInsert /\ [][NextAdd]_vars

\* one run of one fan-out method over a Layers list
InitFanOut == InitLayers /\ InitFan /\ ParkCopy /\ ParkGroup /\ ParkPipe
SpecFan == InitFanOut /\ [][NextFan]_vars

\* a layer is deep-copied and the copy is then worked on
InitCopied == InitLayers /\ ParkFan /\ InitCopy /\ ParkGroup /\ ParkPipe
SpecCopy == InitCopied /\ [][NextCopy]_vars

\* add_group is called on a resolved dataset
InitGrouping == InitLayers /\ ParkFan /\ ParkCopy /\ InitGroup /\ ParkPipe
SpecGroup == InitGrouping /\ [][NextGroup]_vars

\* compute_aesthetics, then setup_data, on a layer
InitAesthetics == InitLayers /\ ParkFan /\ ParkCopy /\ ParkGroup /\ InitAes
SpecAes == InitAesthetics /\ [][NextAes]_vars

\* compute_statistic, then map_statistic, on a layer
InitStatistic == InitLayers /\ ParkFan /\ ParkCopy /\ ParkGroup /\ InitStat
SpecStat == InitStatistic /\ [][NextStat]_vars

\* the five stages, in build order, on a layer whose dataset has no rows
InitEmptyLayer == InitLayers /\ ParkFan /\ ParkCopy /\ ParkGroup /\ InitEmpty
SpecEmpty == InitEmptyLayer /\ [][NextPipeline]_vars

(***************************************************************************)
(* Properties of the Layers list                                           *)
(***************************************************************************)

\* C1: after any sequence of append, extend and += on Layers lists that
\* start empty, the zorder values of the members of each list, read in list
\* order, are 1, 2, ..., N with N the length of the list.
C1_ZorderIsPosition ==
    \A k \in Lists :
        \A i \in 1..Len(members[k]) : zorder[members[k][i]] = i

\* a non-empty list has just been extended by a list of two or more layers
C1_Witness ==
    /\ lastop.op \in {"extend", "iadd"}
    /\ ~lastop.iter
    /\ Len(lastop.other) >= 2
    /\ Len(before.members[lastop.target]) >= 1
    /\ Len(members[lastop.target]) = MaxLayers

\* C10: a + b leaves both operands as they were: the members of a and of b
\* and the zorder of every layer of a and of b are those before the call.
C10_AddLeavesOperands ==
    lastop.op = "add" =>
        /\ members = before.members
        /\ \A l \in Range(members[lastop.target]) \cup Range(lastop.other) :
               zorder[l] = before.zorder[l]

(***************************************************************************)
(* Properties of the fan-out methods                                       *)
(***************************************************************************)
\* the log of a loop that has run the operation on the first k members
RECURSIVE FanDone(_)
FanDone(k) ==
    IF k = 0 THEN <<>>
    ELSE FanDone(k - 1) \o <<[ev |-> "begin", layer |-> k, exc |-> NoExc],
                              [ev |-> "end", layer |-> k, exc |-> NoExc]>>

\* C6: a fan-out method runs the operation on each member once, in list
\* order, one finishing before the next begins; when the operation raises on
\* member i no later member is started and the caller sees that exception.
C6_FanOutInOrder ==
    /\ fan_pc = "returned" => fan_log = FanDone(fan_n)
    /\ fan_pc = "raised" =>
          \E i \in 1..fan_n :
             /\ fan_exc \in Exceptions
             /\ fan_log = FanDone(i - 1) \o
                            <<[ev |-> "begin", layer |-> i, exc |-> NoExc],
                              [ev |-> "raise", layer |-> i, exc |-> fan_exc]>>
    /\ fan_pc \in {"idle", "loop", "call"} =>
          \E k \in 0..fan_n :
             \/ fan_log = FanDone(k)
             \/ /\ k < fan_n
                /\ fan_log = FanDone(k) \o
                     <<[ev |-> "begin", layer |-> k + 1, exc |-> NoExc]>>
    /\ fan_method \in ScaleMethods =>
          \A i \in 1..fan_n :
             fan_data[i] = IF \E p \in 1..Len(fan_log) :
                                 fan_log[p].ev = "end" /\ fan_log[p].layer = i
                           THEN <<fan_method>> ELSE <<>>

\* the operation raised on the second of three members
C6_Witness ==
    /\ fan_pc = "raised"
    /\ fan_n = MaxFan
    /\ Len(fan_log) = 4
    /\ fan_method = "compute_aesthetics"

(***************************************************************************)
(* Properties of layer.__deepcopy__                                        *)
(***************************************************************************)
\* C7: the copy shares the dataset of the original by reference and has an
\* equal object of its own for every other field; whatever is then done to
\* the copy (a stage replacing its dataset, a change to one of its objects,
\* a rebound field), the original's fields, the contents of its objects and
\* the contents of the shared dataset stay as they were.
C7_CopyIsIndependent ==
    copy_pc = "copied" =>
        /\ copy_op.op = "deepcopy" =>
              /\ copy["data"] = orig["data"]
              /\ \A key \in ValFields : copy[key] = orig[key]
              /\ \A key \in Range(ObjFields) :
                    /\ copy[key] # orig[key]
                    /\ heap[copy[key]] = heap[orig[key]]
              /\ \A k1, k2 \in Range(ObjFields) :
                    k1 # k2 => copy[k1] # copy[k2]
        /\ orig = at_copy.orig
        /\ \A key \in Range(ObjFields) \cup {"data"} :
              heap[orig[key]] = at_copy.heap[orig[key]]

\* the copy's dataset has been replaced by a stage and its mapping changed
C7_Witness ==
    /\ copy_pc = "copied"
    /\ copy["data"] # orig["data"]
    /\ heap[copy["mapping"]] # heap[orig["mapping"]]
    /\ copy_op.n = MaxCopyOps

(***************************************************************************)
(* Properties of add_group                                                 *)
(***************************************************************************)
\* the columns add_group groups by, stated from the dataset: discrete
\* dtype, not the label, values that can be hashed
GroupingColumns(df) ==
    {i \in 1..Len(df.cols) :
        /\ df.cols[i].kind \in {"O", "b", "U", "S"}
        /\ df.cols[i].name # "label"
        /\ \A r \in 1..df.n : df.cols[i].vals[r].h}

\* C2: on a non-empty dataset without a group column add_group keeps every
\* row and column in place and adds a group id to each row; two rows have
\* the same id exactly when they agree on every grouping column, the ids
\* used are 1..K, and without a grouping column every id is NO_GROUP.
C2_GroupingIsPartition ==
    (grp_pc = "done" /\ grp_in.n > 0 /\ ~HasCol(grp_in, "group")) =>
        LET sel == GroupingColumns(grp_in)
            same(r1, r2) == \A i \in sel :
                               grp_in.cols[i].vals[r1] = grp_in.cols[i].vals[r2]
            g == grp_out.cols[Len(grp_out.cols)]
            ids == {g.vals[r].v : r \in 1..grp_in.n}
        IN /\ grp_out.n = grp_in.n
           /\ Len(grp_out.cols) = Len(grp_in.cols) + 1
           /\ \A i \in 1..Len(grp_in.cols) : grp_out.cols[i] = grp_in.cols[i]
           /\ g.name = "group"
           /\ DOMAIN g.vals = 1..grp_in.n
           /\ IF sel = {}
              THEN \A r \in 1..grp_in.n : g.vals[r].v = -1
              ELSE /\ \A r1, r2 \in 1..grp_in.n :
                         (g.vals[r1] = g.vals[r2]) <=> same(r1, r2)
                   /\ ids = 1..Cardinality(ids)

\* two rows that differ only in their labels got the same id, in a dataset
\* with a string colour and a boolean fill
C2_Witness ==
    /\ grp_pc = "done"
    /\ grp_in.n = MaxRows
    /\ Names(grp_in) = {"x", "colour", "fill", "label"}
    /\ GetCol(grp_in, "colour").vals[1].h
    /\ GetCol(grp_out, "group").vals[1] = GetCol(grp_out, "group").vals[2]

(***************************************************************************)
(* Properties of the pipeline stages                                       *)
(***************************************************************************)
\* a mapped value compute_aesthetics can resolve against `data`: a number,
\* a list, a column of data or an expression that evaluates to a series
Resolvable(value, data) ==
    \/ value.t \in {"num", "list"}
    \/ /\ value.t = "str"
       /\ (~value.dots /\ HasCol(data, value.s)) \/ value.ev = "series"

\* a literal vector of length n does not fit a dataset of `rows` rows
Misfit(rows, n) == rows > 0 /\ n # rows /\ n # 1

\* C3: compute_aesthetics rejects a literal vector of length n on a
\* dataset of R rows exactly when R > 0, n # R and n # 1; otherwise the
\* vector is accepted: with the other aesthetics resolvable the call
\* succeeds, a vector of length 1 gives every row its element and a longer
\* one gives row i its i-th element.
C3_VectorLengthCheck ==
    call.stage = "compute_aesthetics" =>
        LET active == lyr.active_mapping
            R == call.data.n
            vectors == {ae \in DOMAIN active : active[ae].t = "list"}
        IN /\ call.err = "LengthMismatch" =>
                 \E ae \in vectors : Misfit(R, active[ae].n)
           /\ \A ae \in vectors :
                 Misfit(R, active[ae].n) =>
                    /\ call.err \in AesErrors
                    /\ (\A o \in DOMAIN active :
                           Resolvable(active[o], call.data))
                       => call.err = "LengthMismatch"
           /\ \A ae \in vectors :
                 (/\ ~Misfit(R, active[ae].n)
                  /\ \A o \in DOMAIN active : Resolvable(active[o], call.data)
                  /\ R > 0 => HasCol(call.data, "PANEL"))
                 => /\ call.err = NoErr
                    /\ HasCol(lyr.data, ae)
                    /\ IF active[ae].n = 1
                       THEN /\ lyr.data.n = R
                            /\ \A r \in 1..R :
                                  GetCol(lyr.data, ae).vals[r]
                                     = Atom(active[ae].v)
                       ELSE /\ lyr.data.n = active[ae].n
                            /\ \A r \in 1..active[ae].n :
                                  GetCol(lyr.data, ae).vals[r]
                                     = Atom(active[ae].v + r - 1)

\* a vector of length 1 was broadcast over a dataset of MaxRows rows
C3_Witness ==
    /\ call.stage = "compute_aesthetics"
    /\ call.err = NoErr
    /\ call.data.n = MaxRows
    /\ "x" \in DOMAIN lyr.active_mapping
    /\ lyr.active_mapping["x"] = List(1, 5)
    /\ \A r \in 1..MaxRows : GetCol(lyr.data, "x").vals[r] = Atom(5)

\* C8: the aesthetics compute_aesthetics resolves are the layer mapping
\* laid over the plot mapping (inherit_aes) or the layer mapping alone,
\* without the aesthetics named in the geom's aes_params and without the
\* calculated ones; a 'group' in aes_params is resolved with the
\* parameter's value, whatever is mapped to group.
C8_ActiveAesthetics ==
    call.stage = "compute_aesthetics" =>
        LET params == lyr.geom.aes_params
            base == IF lyr.inherit_aes
                    THEN [ae \in DOMAIN lyr.mapping \cup DOMAIN plot.mapping |->
                            IF ae \in DOMAIN lyr.mapping
                            THEN lyr.mapping[ae] ELSE plot.mapping[ae]]
                    ELSE lyr.mapping
            kept == {ae \in DOMAIN base :
                        /\ ae \notin DOMAIN params
                        /\ ~(base[ae].t = "str" /\ base[ae].dots)}
            forced == IF "group" \in DOMAIN params THEN {"group"} ELSE {}
        IN /\ DOMAIN lyr.active_mapping = kept \cup forced
           /\ \A ae \in kept : lyr.active_mapping[ae] = base[ae]
           /\ \A ae \in forced : lyr.active_mapping[ae] = params[ae]
           /\ call.err = NoErr =>
                 /\ Names(lyr.data) \ {"PANEL", "group"}
                       = (kept \cup forced) \ {"group"}
                 /\ (forced # {} /\ lyr.data.n > 0) =>
                       /\ HasCol(lyr.data, "group")
                       /\ \A r \in 1..lyr.data.n :
                             GetCol(lyr.data, "group").vals[r]
                                = GetCol(lyr.data, "group").vals[1]

\* an inherited colour fixed by the geom, a calculated y, and a mapped
\* group overridden by the geom's group parameter
C8_Witness ==
    /\ call.stage = "compute_aesthetics"
    /\ call.err = NoErr
    /\ lyr.inherit_aes
    /\ lyr.data.n = MaxRows
    /\ DOMAIN lyr.mapping = {"x", "y", "group"}
    /\ lyr.mapping["y"] = Calc("count")
    /\ DOMAIN plot.mapping = {"x", "colour"}
    /\ DOMAIN lyr.geom.aes_params = {"group", "colour"}
    /\ DOMAIN lyr.active_mapping = {"x", "group"}

\* C9: when compute_aesthetics raises one of its four errors, or
\* setup_data raises for a missing required aesthetic, self.data is what it
\* was before the call; and the failed compute_aesthetics has registered
\* nothing with plot.scales.
C9_FailedCallLeavesData ==
    /\ (call.stage = "compute_aesthetics" /\ call.err \in AesErrors) =>
          /\ lyr.data = call.data
          /\ plot.scales = call.scales
    /\ (call.stage = "setup_data" /\ call.err # NoErr) =>
          lyr.data = call.data

\* compute_aesthetics raised on a mapping of three aesthetics, two of
\* which it can resolve
C9_Witness ==
    /\ call.stage = "compute_aesthetics"
    /\ call.err = "Unsupported"
    /\ call.data.n = MaxRows
    /\ Cardinality({ae \in DOMAIN lyr.active_mapping :
                       Resolvable(lyr.active_mapping[ae], call.data)}) = 2

\* C4: map_statistic on a non-empty dataset with distinct column names
\* leaves a dataset with distinct column names.
C4_NoDuplicateColumns ==
    (/\ call.stage = "map_statistic"
     /\ call.data.n > 0
     /\ DistinctNames(call.data))
    => DistinctNames(lyr.data)

\* C5: a stage run on a layer whose dataset has no rows (and whose mapped
\* values can all be resolved) raises nothing and leaves a dataset with no
\* rows.
C5_EmptyStaysEmpty ==
    (/\ call.stage # "none"
     /\ call.data.n = 0
     /\ \A ae \in DOMAIN lyr.active_mapping :
           Resolvable(lyr.active_mapping[ae], call.data))
    => /\ call.err = NoErr
       /\ lyr.data.n = 0

====
